---- MODULE Spec2Model ----
(***************************************************************************)
(* Orion-GNC mission sequencer: the Flask API (mission-sequencer/main.py), *)
(* the Celery task execute_mission (mission-sequencer/worker.py) and the   *)
(* Redis store / channels they share.                                      *)
(*                                                                         *)
(* Redis is modelled by five pieces of state: the key store                *)
(* mission:<id>:status (status), the Celery broker list (queue), the       *)
(* gnc_commands channel (gnc), the status channels (chan) and the          *)
(* mission_abort_commands channel (inbox, one message buffer per           *)
(* subscribed pubsub object).                                              *)
(***************************************************************************)
EXTENDS Integers, Sequences, FiniteSets, TLC

\* ---------------------------------------------------------------- bounds
MaxPlanLen == 2
MaxEvents == 1

MissionIds == {"m1", "m2"}
\* The processes of the Celery worker pool, and the pool of a one-process worker
Workers == {"w1", "w2"}
Solo == {"w1"}
\* The request threads of the Flask API: one serving requests one at a time, and
\* the threads of a server that serves requests concurrently
Handlers == {"h1"}
ApiThreads == {"h1", "h2"}

\* ---------------------------------------------------------------- data
\* The plans submitted: every window of at most MaxPlanLen commands of the cycle
CmdCycle == <<"SET_THROTTLE", "INVALID_COMMAND", "WAIT">>

Window(o, n) == [k \in 1..n |-> CmdCycle[((o + k - 2) % Len(CmdCycle)) + 1]]

FlightPlans == {Window(o, n) : o \in 1..Len(CmdCycle), n \in 0..MaxPlanLen}

\* The plans submitted to the two-process pool: one plan of every length (the
\* task never looks at the commands it forwards)
PoolPlans == {Window(1, n) : n \in 0..MaxPlanLen}

\* Stands for the content of a payload that fails the schema validation
MalformedPlan == <<"MALFORMED">>

NoPlan == [mission_id |-> "", flight_plan |-> <<>>]

\* The details of a status payload. The code passes plain strings (kind
\* "string"); a details object would carry the name of its field as kind.
Msg(text) == [kind |-> "string", text |-> text, num |-> 0, of |-> 0, arg |-> ""]

ExecMsg(i, n, cmd) ==
    [kind |-> "string", text |-> "Executing command", num |-> i, of |-> n, arg |-> cmd]

ErrMsg(e) ==
    [kind |-> "string", text |-> "An error occurred", num |-> 0, of |-> 0, arg |-> e]

StatusPayload(s, details) == [status |-> s, details |-> details]

NoStatus == StatusPayload("NONE", Msg(""))

Terminal == {"COMPLETED", "FAILED", "ABORTED"}

SubscribeConfirmation == [type |-> "subscribe", data |-> ""]

AbortMessage(m) == [type |-> "message", data |-> m]

NoTraffic == [m |-> "", cmd |-> "", closed |-> {}, mixed |-> FALSE]

\* gnc_commands after one more message: mixed records that a mission published
\* again after another mission's command had followed its own
Published(g, m, cmd) ==
    [m |-> m, cmd |-> cmd,
     closed |-> IF g.m \in {"", m} THEN g.closed ELSE g.closed \cup {g.m},
     mixed |-> g.mixed \/ m \in g.closed]

\* The channel status payloads are published on, and the channel dedicated to
\* one mission (mission_status:<mission_id>)
GlobalChannel == <<"mission_status", "">>

MissionChannel(m) == <<"mission_status", m>>

StatusChannels == {GlobalChannel} \cup {MissionChannel(m) : m \in MissionIds}

\* redis_client.publish(channel, {"mission_id": m, **payload})
PublishOn(c, channel, m, payload) == [c EXCEPT ![channel][m] = payload]

IdleHandler == [op |-> "idle", pc |-> "idle", m |-> "", fp |-> <<>>]

\* ------------------------------------------------ one command of a flight plan
\* Bounds of the commands handed to the loop body: WAIT values in seconds,
\* delay_ms values in milliseconds
MaxWait == 2

DelayValues == {0, 1000, 2000}

\* The longest time.sleep may overrun the requested delay by, in milliseconds
MaxOverrun == 500

\* Apoapsis readings the telemetry source would deliver, one per poll
Streams == {<<3, 3, 1>>, <<2, 1>>, <<1, 2, 1>>, <<1, 2, 3, 2>>, <<1, 1, 2, 3, 2>>}

\* A command of a flight plan as the task receives it: has_delay says whether
\* the dictionary has the key delay_ms
Commands ==
    [command : {"SET_THROTTLE", "WAIT", "WAIT_UNTIL_APOAPSIS"},
     value : 0..MaxWait,
     has_delay : BOOLEAN,
     delay_ms : DelayValues]

NoCommand == [command |-> "", value |-> 0, has_delay |-> FALSE, delay_ms |-> 0]

NoStep ==
    [pc |-> "idle", cmd |-> NoCommand, stream |-> <<>>, published |-> FALSE,
     elapsed |-> 0, polls |-> 0, released |-> 0]

\* ------------------------------------------------ gnc-flight-control websocket
\* The websocket connections the server accepts, one handler coroutine each,
\* and the coroutines that broadcast telemetry
Sockets == {"c1", "c2"}

Broadcasters == {"b1", "b2"}

\* The number of broadcasts each broadcasting coroutine makes
MaxBroadcasts == 2

\* What awaiting websocket.wait_closed() can do: return, or raise one of the
\* exceptions the handler names or another Exception
Outcomes ==
    {"returned", "ConnectionClosedOK", "ConnectionClosedError",
     "InvalidHandshake", "InvalidMessage", "Exception"}

NewConn == [pc |-> "new", outcome |-> "", raised |-> FALSE]

IdleBroadcast ==
    [pc |-> "idle", clients_list |-> {}, attempts |-> [c \in Sockets |-> 0],
     results |-> [c \in Sockets |-> "none"], raised |-> FALSE, n |-> 0]

\* ------------------------------------------------------- mission-control-ui
\* The request threads of the UI server
UiThreads == {"u1", "u2"}

\* What requests.post to the sequencer's /submit_mission can produce: one of
\* the responses of main.py (lines 49, 53, 62, 68, 80), Flask's answer to an
\* unhandled exception of the view, or no response at all (code 0: the
\* connection failed or timed out)
SequencerResponses ==
    {[code |-> 202, body |-> "Mission accepted", mission_id |-> m] : m \in MissionIds}
    \cup {[code |-> 400, body |-> "Invalid JSON payload", mission_id |-> ""],
          [code |-> 400, body |-> "Schema validation failed", mission_id |-> ""],
          [code |-> 409, body |-> "Mission with this ID already exists", mission_id |-> ""],
          [code |-> 500, body |-> "Mission schema not loaded", mission_id |-> ""],
          [code |-> 500, body |-> "Internal Server Error", mission_id |-> ""],
          [code |-> 0, body |-> "", mission_id |-> ""]}

NoResponse == [code |-> -1, body |-> "", mission_id |-> ""]

IdleProxy == [pc |-> "idle", resp |-> NoResponse, reply |-> NoResponse]

\* ------------------------------------------- gnc-flight-control command path
\* The largest control value a plan command carries
MaxValue == 2

\* The number of messages other publishers put on gnc_commands
MaxForeign == 1

\* A command dictionary of a flight plan as GNC reads it. The value is carried
\* under the key "value" of the command itself (shape "value") or inside a
\* dictionary under the key "parameters" (shape "parameters").
GncCommands ==
    [command : {"SET_THROTTLE", "SET_SAS", "SET_RCS", "WAIT"},
     shape : {"value", "parameters"},
     value : 1..MaxValue]

NoGncCommand == [command |-> "", shape |-> "value", value |-> 0]

\* json.dumps(cmd), and a message that is not JSON
JsonDumps(cmd) == [json |-> TRUE, data |-> cmd]

NotJson == [json |-> FALSE, data |-> NoGncCommand]

IdleFeed == [sent |-> <<>>, status |-> "IN_PROGRESS", foreign |-> 0]

NoSubscriber == [pc |-> "boot", pending |-> <<>>, delivered |-> <<>>, handled |-> <<>>]

NoVessel ==
    [connected |-> FALSE, throttle |-> 0, sas |-> FALSE, rcs |-> FALSE,
     last |-> NoGncCommand, applied |-> <<>>]

VARIABLES
    status,      \* Redis key mission:<id>:status, per mission id
    queue,       \* Celery broker: the queued execute_mission task arguments
    gnc,         \* gnc_commands: the last message published, and the missions
                 \* whose commands were followed by another mission's
    inbox,       \* per worker: unread messages of its abort_pubsub
    subscribed,  \* per worker: abort_pubsub is subscribed
    wpc,         \* per worker: position in the consumer loop / execute_mission
    wplan,       \* per worker: mission_plan of the current (or last) run
    wi,          \* per worker: 1-based loop position in flight_plan
    wpend,       \* per worker: payload stored but not yet published
    rlog,        \* per worker: payloads the run has published, in order
    wrote,       \* per worker: statuses the run has stored, in order
    sent,        \* per worker: commands the run has forwarded, in order
    abortSeen,   \* per worker: boundary at which the run saw its abort (0: none)
    faulted,     \* per worker: a Redis call of the run has raised
    stopFlag,    \* the cooperative stop flag of the consumer loop
    stopSeen,    \* per worker: stop() was called while the run slept after a WAIT
    hreq,        \* per API handler thread: the request being served
    events,      \* disturbances so far: abort requests, Redis errors, stop() calls
    started,     \* per mission id: the runs of execute_mission started for it
    chan,        \* per status channel and mission id: the last payload emitted
    abortReq,    \* the mission ids abort_mission has published an abort message for
    step,        \* the loop body of one command, with its timing (worker.py 53-60)
    clients,     \* gnc-flight-control: the set of connected websocket clients
    conn,        \* gnc-flight-control: each websocket_handler coroutine
    bcast,       \* gnc-flight-control: each broadcast_telemetry call
    ui,          \* mission-control-ui: each /submit_mission proxy request
    feed,        \* the commands a run publishes on gnc_commands (worker.py 53-63)
    gsub,        \* gnc-flight-control: redis_subscriber and its pubsub
    vessel       \* gnc-flight-control: krpc_conn, vessel and its controls

vars == <<status, queue, gnc, inbox, subscribed, wpc, wplan, wi,
          wpend, rlog, wrote, sent, abortSeen, faulted, stopFlag,
          stopSeen, hreq, events, started, chan, abortReq,
          step, clients, conn, bcast, ui,
          feed, gsub, vessel>>

runVars == <<wplan, wi, rlog, wrote, sent, abortSeen, faulted>>

Init ==
    /\ status = [m \in MissionIds |-> NoStatus]
    /\ queue = <<>>
    /\ gnc = NoTraffic
    /\ inbox = [w \in Workers |-> <<>>]
    /\ subscribed = [w \in Workers |-> FALSE]
    /\ wpc = [w \in Workers |-> "pop"]
    /\ wplan = [w \in Workers |-> NoPlan]
    /\ wi = [w \in Workers |-> 0]
    /\ wpend = [w \in Workers |-> NoStatus]
    /\ rlog = [w \in Workers |-> <<>>]
    /\ wrote = [w \in Workers |-> <<>>]
    /\ sent = [w \in Workers |-> <<>>]
    /\ abortSeen = [w \in Workers |-> 0]
    /\ faulted = [w \in Workers |-> FALSE]
    /\ stopFlag = FALSE
    /\ stopSeen = [w \in Workers |-> FALSE]
    /\ hreq = [h \in ApiThreads |-> IdleHandler]
    /\ events = 0
    /\ started = [m \in MissionIds |-> 0]
    /\ chan = [c \in StatusChannels |-> [m \in MissionIds |-> NoStatus]]
    /\ abortReq = {}
    /\ step = NoStep
    /\ clients = {}
    /\ conn = [c \in Sockets |-> NewConn]
    /\ bcast = [b \in Broadcasters |-> IdleBroadcast]
    /\ ui = [u \in UiThreads |-> IdleProxy]
    /\ feed = IdleFeed
    /\ gsub = NoSubscriber
    /\ vessel = NoVessel

\* ------------------------------------------------------- mission-sequencer API
\* main.py submit_mission, lines 45-68: the payload is validated and the
\* store is checked for an existing record of the mission id.
SubmitBegin(h, m, fp) ==
    /\ hreq[h].op = "idle"
    /\ hreq' = [hreq EXCEPT ![h] =
                  IF status[m] # NoStatus
                  THEN IdleHandler
                  ELSE [op |-> "submit", pc |-> "delay", m |-> m, fp |-> fp]]
    /\ UNCHANGED <<status, queue, gnc, inbox, subscribed, wpc, wpend, runVars, stopFlag,
                   stopSeen, events, started, chan, abortReq, step, clients, conn,
                   bcast, ui, feed, gsub, vessel>>

\* Faulty variant of SubmitInvalid: the payload is not validated
SubmitUnvalidated(h, m) ==
    /\ hreq[h].op = "idle"
    /\ hreq' = [hreq EXCEPT ![h] =
                  IF status[m] # NoStatus
                  THEN IdleHandler
                  ELSE [op |-> "submit", pc |-> "delay", m |-> m,
                        fp |-> MalformedPlan]]
    /\ UNCHANGED <<status, queue, gnc, inbox, subscribed, wpc, wpend, runVars, stopFlag,
                   stopSeen, events, started, chan, abortReq, step, clients, conn,
                   bcast, ui, feed, gsub, vessel>>

\* main.py submit_mission, lines 45-62, for a payload naming mission m that is
\* empty or fails the schema validation (or when no schema is loaded): the
\* error response is built
SubmitInvalid(h, m) ==
    /\ hreq[h].op = "idle"
    /\ hreq' = [hreq EXCEPT ![h] =
                  [op |-> "submit", pc |-> "rejected", m |-> m,
                   fp |-> MalformedPlan]]
    /\ UNCHANGED <<status, queue, gnc, inbox, subscribed, wpc, wpend, runVars, stopFlag,
                   stopSeen, events, started, chan, abortReq, step, clients, conn,
                   bcast, ui, feed, gsub, vessel>>

\* main.py lines 49, 53, 62: the error response (400 or 500) is returned
SubmitReject(h) ==
    /\ hreq[h].op = "submit" /\ hreq[h].pc = "rejected"
    /\ hreq' = [hreq EXCEPT ![h] = IdleHandler]
    /\ UNCHANGED <<status, queue, gnc, inbox, subscribed, wpc, wpend, runVars, stopFlag,
                   stopSeen, events, started, chan, abortReq, step, clients, conn,
                   bcast, ui, feed, gsub, vessel>>

\* Faulty variant of SubmitDelay: the plan is accepted but never queued
SubmitNoDelay(h) ==
    /\ hreq[h].op = "submit" /\ hreq[h].pc = "delay"
    /\ hreq' = [hreq EXCEPT ![h].pc = "set"]
    /\ UNCHANGED <<status, queue, gnc, inbox, subscribed, wpc, wpend, runVars, stopFlag,
                   stopSeen, events, started, chan, abortReq, step, clients, conn,
                   bcast, ui, feed, gsub, vessel>>

\* main.py line 71: execute_mission.delay(mission_plan)
SubmitDelay(h) ==
    /\ hreq[h].op = "submit" /\ hreq[h].pc = "delay"
    /\ queue' = Append(queue, [mission_id |-> hreq[h].m, flight_plan |-> hreq[h].fp])
    /\ hreq' = [hreq EXCEPT ![h].pc = "set"]
    /\ UNCHANGED <<status, gnc, inbox, subscribed, wpc, wpend, runVars, stopFlag,
                   stopSeen, events, started, chan, abortReq, step, clients, conn,
                   bcast, ui, feed, gsub, vessel>>

QueuedStatus ==
    StatusPayload("QUEUED", Msg("Mission plan validated and queued for execution."))

\* main.py line 77
SubmitSet(h) ==
    /\ hreq[h].op = "submit" /\ hreq[h].pc = "set"
    /\ status' = [status EXCEPT ![hreq[h].m] = QueuedStatus]
    /\ hreq' = [hreq EXCEPT ![h].pc = "publish"]
    /\ UNCHANGED <<queue, gnc, inbox, subscribed, wpc, wpend, runVars, stopFlag,
                   stopSeen, events, started, chan, abortReq, step, clients, conn,
                   bcast, ui, feed, gsub, vessel>>

\* main.py lines 78-80
SubmitPublish(h) ==
    /\ hreq[h].op = "submit" /\ hreq[h].pc = "publish"
    /\ hreq' = [hreq EXCEPT ![h] = IdleHandler]
    /\ chan' = PublishOn(chan, GlobalChannel, hreq[h].m, QueuedStatus)
    /\ UNCHANGED <<status, queue, gnc, inbox, subscribed, wpc, wpend, runVars, stopFlag,
                   stopSeen, events, started, abortReq, step, clients, conn, bcast, ui,
                   feed, gsub, vessel>>

\* main.py abort_mission, lines 98-99
AbortBegin(h, m) ==
    /\ hreq[h].op = "idle"
    /\ events < MaxEvents
    /\ events' = events + 1
    /\ hreq' = [hreq EXCEPT ![h] =
                  IF status[m] = NoStatus
                  THEN IdleHandler
                  ELSE [op |-> "abort", pc |-> "signal", m |-> m, fp |-> <<>>]]
    /\ UNCHANGED <<status, queue, gnc, inbox, subscribed, wpc, wpend, runVars, stopFlag,
                   stopSeen, started, chan, abortReq, step, clients, conn, bcast, ui,
                   feed, gsub, vessel>>

\* main.py line 102: the message reaches every pubsub subscribed right now
AbortSignal(h) ==
    /\ hreq[h].op = "abort" /\ hreq[h].pc = "signal"
    /\ inbox' = [w \in Workers |->
                   IF subscribed[w] THEN Append(inbox[w], AbortMessage(hreq[h].m))
                   ELSE inbox[w]]
    /\ hreq' = [hreq EXCEPT ![h].pc = "set"]
    /\ abortReq' = abortReq \cup {hreq[h].m}
    /\ UNCHANGED <<status, queue, gnc, subscribed, wpc, wpend, runVars, stopFlag,
                   stopSeen, events, started, chan, step, clients, conn, bcast, ui,
                   feed, gsub, vessel>>

AbortRequestedStatus ==
    StatusPayload("ABORT_REQUESTED", Msg("Abort signal sent to mission worker."))

\* main.py line 108
AbortSet(h) ==
    /\ hreq[h].op = "abort" /\ hreq[h].pc = "set"
    /\ status' = [status EXCEPT ![hreq[h].m] = AbortRequestedStatus]
    /\ hreq' = [hreq EXCEPT ![h].pc = "publish"]
    /\ UNCHANGED <<queue, gnc, inbox, subscribed, wpc, wpend, runVars, stopFlag,
                   stopSeen, events, started, chan, abortReq, step, clients, conn,
                   bcast, ui, feed, gsub, vessel>>

\* main.py lines 109-111
AbortPublish(h) ==
    /\ hreq[h].op = "abort" /\ hreq[h].pc = "publish"
    /\ hreq' = [hreq EXCEPT ![h] = IdleHandler]
    /\ chan' = PublishOn(chan, GlobalChannel, hreq[h].m, AbortRequestedStatus)
    /\ UNCHANGED <<status, queue, gnc, inbox, subscribed, wpc, wpend, runVars, stopFlag,
                   stopSeen, events, started, abortReq, step, clients, conn, bcast, ui,
                   feed, gsub, vessel>>

\* Faulty variant of GetMissionStatus: the record of a terminated mission is
\* not served
GetMissionStatusActive(m) ==
    IF status[m] = NoStatus \/ status[m].status \in Terminal
    THEN [code |-> 404, body |-> NoStatus]
    ELSE [code |-> 200, body |-> status[m]]

\* main.py get_mission_status, lines 87-91: the response to a status query
GetMissionStatus(m) ==
    IF status[m] = NoStatus
    THEN [code |-> 404, body |-> NoStatus]
    ELSE [code |-> 200, body |-> status[m]]

\* ------------------------------------------------------------ consumer loop
\* Faulty variant of ConsumerLoop: the loop condition ignores the stop flag
ConsumerLoopForever(w) ==
    /\ wpc[w] = "loop"
    /\ wpc' = [wpc EXCEPT ![w] = "pop"]
    /\ UNCHANGED <<status, queue, gnc, inbox, subscribed, wpend, runVars, stopFlag,
                   stopSeen, hreq, events, started, chan, abortReq, step, clients, conn,
                   bcast, ui, feed, gsub, vessel>>

\* run(): the loop condition. The stop flag is observed here only.
ConsumerLoop(w) ==
    /\ wpc[w] = "loop"
    /\ wpc' = [wpc EXCEPT ![w] = IF stopFlag THEN "exited" ELSE "pop"]
    /\ UNCHANGED <<status, queue, gnc, inbox, subscribed, wpend, runVars, stopFlag,
                   stopSeen, hreq, events, started, chan, abortReq, step, clients, conn,
                   bcast, ui, feed, gsub, vessel>>

\* Faulty variant of ConsumerPop: the plan is handed to the task but stays queued
ConsumerPopKeep(w) ==
    /\ wpc[w] = "pop"
    /\ queue # <<>>
    /\ wplan' = [wplan EXCEPT ![w] = Head(queue)]
    /\ started' = [started EXCEPT ![Head(queue).mission_id] = @ + 1]
    /\ wpc' = [wpc EXCEPT ![w] = "start"]
    /\ UNCHANGED <<status, queue, gnc, inbox, subscribed, wpend, wi, rlog, wrote, sent,
                   abortSeen, faulted, stopFlag, stopSeen, hreq, events, chan, abortReq,
                   step, clients, conn, bcast, ui, feed, gsub, vessel>>

\* run(): the pop returns the oldest queued plan, which is handed to the task
\* (worker.py lines 33-34: one call of execute_mission per delivered message)
ConsumerPop(w) ==
    /\ wpc[w] = "pop"
    /\ queue # <<>>
    /\ queue' = Tail(queue)
    /\ wplan' = [wplan EXCEPT ![w] = Head(queue)]
    /\ started' = [started EXCEPT ![Head(queue).mission_id] = @ + 1]
    /\ wpc' = [wpc EXCEPT ![w] = "start"]
    /\ UNCHANGED <<status, gnc, inbox, subscribed, wpend, wi, rlog, wrote, sent,
                   abortSeen, faulted, stopFlag, stopSeen, hreq, events, chan, abortReq,
                   step, clients, conn, bcast, ui, feed, gsub, vessel>>

\* run(): the pop raises a broker connectivity error; the error is logged, the
\* loop sleeps and retries. Nothing is taken from the queue.
ConsumerPopFail(w) ==
    /\ wpc[w] = "pop"
    /\ events < MaxEvents
    /\ events' = events + 1
    /\ wpc' = [wpc EXCEPT ![w] = "loop"]
    /\ UNCHANGED <<status, queue, gnc, inbox, subscribed, wpend, runVars, stopFlag,
                   stopSeen, hreq, started, chan, abortReq, step, clients, conn, bcast,
                   ui, feed, gsub, vessel>>

\* run(): the pop times out on an empty queue and the loop continues
ConsumerTimeout(w) ==
    /\ wpc[w] = "pop"
    /\ queue = <<>>
    /\ wpc' = [wpc EXCEPT ![w] = "loop"]
    /\ UNCHANGED <<status, queue, gnc, inbox, subscribed, wpend, runVars, stopFlag,
                   stopSeen, hreq, events, started, chan, abortReq, step, clients, conn,
                   bcast, ui, feed, gsub, vessel>>

\* stop()
Stop ==
    /\ ~stopFlag
    /\ events < MaxEvents
    /\ events' = events + 1
    /\ stopFlag' = TRUE
    /\ stopSeen' = [w \in Workers |-> wpc[w] = "sleep" /\ wplan[w].flight_plan[wi[w]] = "WAIT"]
    /\ UNCHANGED <<status, queue, gnc, inbox, subscribed, wpc, wpend, runVars, hreq,
                   started, chan, abortReq, step, clients, conn, bcast, ui, feed, gsub,
                   vessel>>

\* ---------------------------------------------------------- execute_mission
Mid(w) == wplan[w].mission_id
Fp(w) == wplan[w].flight_plan

\* Faulty variant of UpdateSet: the payload is stored under every mission id
UpdateSetAll(w, s, details, nextpc) ==
    /\ wpend[w] = NoStatus
    /\ status' = [m \in MissionIds |-> StatusPayload(s, details)]
    /\ wpend' = [wpend EXCEPT ![w] = StatusPayload(s, details)]
    /\ wrote' = [wrote EXCEPT ![w] = Append(@, s)]
    /\ wpc' = [wpc EXCEPT ![w] = nextpc]

\* worker.py update_mission_status, lines 25-29: the payload is built and stored
UpdateSet(w, s, details, nextpc) ==
    /\ wpend[w] = NoStatus
    /\ status' = [status EXCEPT ![Mid(w)] = StatusPayload(s, details)]
    /\ wpend' = [wpend EXCEPT ![w] = StatusPayload(s, details)]
    /\ wrote' = [wrote EXCEPT ![w] = Append(@, s)]
    /\ wpc' = [wpc EXCEPT ![w] = nextpc]

\* worker.py update_mission_status, lines 30-31: the stored payload is published
UpdatePublish(w) ==
    /\ wpend[w] # NoStatus
    /\ rlog' = [rlog EXCEPT ![w] = Append(@, wpend[w])]
    /\ wpend' = [wpend EXCEPT ![w] = NoStatus]
    /\ chan' = PublishOn(chan, GlobalChannel, Mid(w), wpend[w])
    /\ UNCHANGED <<status, queue, gnc, inbox, subscribed, wpc, wplan, wi, wrote, sent,
                   abortSeen, faulted, stopFlag, stopSeen, hreq, events, started,
                   abortReq, step, clients, conn, bcast, ui, feed, gsub, vessel>>

StartingStatus == StatusPayload("IN_PROGRESS", Msg("Starting mission execution."))

\* worker.py lines 38-39
Start(w) ==
    /\ wpc[w] = "start"
    /\ UpdateSet(w, "IN_PROGRESS", Msg("Starting mission execution."), "subscribe")
    /\ UNCHANGED <<queue, gnc, inbox, subscribed, wplan, wi, rlog, sent, abortSeen,
                   faulted, stopFlag, stopSeen, hreq, events, started, chan, abortReq,
                   step, clients, conn, bcast, ui, feed, gsub, vessel>>

\* worker.py lines 42-43
Subscribe(w) ==
    /\ wpc[w] = "subscribe" /\ wpend[w] = NoStatus
    /\ subscribed' = [subscribed EXCEPT ![w] = TRUE]
    /\ inbox' = [inbox EXCEPT ![w] = <<SubscribeConfirmation>>]
    /\ wi' = [wi EXCEPT ![w] = 1]
    /\ wpc' = [wpc EXCEPT ![w] = "check"]
    /\ UNCHANGED <<status, queue, gnc, wpend, wplan, rlog, wrote, sent, abortSeen,
                   faulted, stopFlag, stopSeen, hreq, events, started, chan, abortReq,
                   step, clients, conn, bcast, ui, feed, gsub, vessel>>

\* abort_pubsub.get_message(): the oldest unread message, if any
GetMessage(w) == IF inbox[w] = <<>> THEN [type |-> "none", data |-> ""] ELSE Head(inbox[w])

\* Faulty variant of IsAbortFor: the mission id of the message is not compared
IsAbortForAny(msg, m) == msg.type = "message"

\* worker.py line 49
IsAbortFor(msg, m) == msg.type = "message" /\ msg.data = m

\* worker.py lines 46-49: the next loop iteration and its abort check
Check(w) ==
    /\ wpc[w] = "check" /\ wpend[w] = NoStatus
    /\ IF wi[w] > Len(Fp(w))
       THEN /\ wpc' = [wpc EXCEPT ![w] = "complete"]
            /\ UNCHANGED <<inbox, abortSeen>>
       ELSE /\ inbox' = [inbox EXCEPT ![w] = IF @ = <<>> THEN @ ELSE Tail(@)]
            /\ IF IsAbortFor(GetMessage(w), Mid(w))
               THEN /\ wpc' = [wpc EXCEPT ![w] = "abort"]
                    /\ abortSeen' = [abortSeen EXCEPT ![w] = wi[w]]
               ELSE /\ wpc' = [wpc EXCEPT ![w] = "announce"]
                    /\ UNCHANGED abortSeen
    /\ UNCHANGED <<status, queue, gnc, subscribed, wpend, wplan, wi, rlog, wrote, sent,
                   faulted, stopFlag, stopSeen, hreq, events, started, chan, abortReq,
                   step, clients, conn, bcast, ui, feed, gsub, vessel>>

AbortedDetails == Msg("Mission aborted by operator.")

\* worker.py lines 50-51
Abort(w) ==
    /\ wpc[w] = "abort"
    /\ UpdateSet(w, "ABORTED", AbortedDetails, "ret_aborted")
    /\ UNCHANGED <<queue, gnc, inbox, subscribed, wplan, wi, rlog, sent, abortSeen,
                   faulted, stopFlag, stopSeen, hreq, events, started, chan, abortReq,
                   step, clients, conn, bcast, ui, feed, gsub, vessel>>

\* Faulty variant of Announce: the command is dispatched unannounced
AnnounceUnpublished(w) ==
    /\ wpc[w] = "announce" /\ wpend[w] = NoStatus
    /\ wpc' = [wpc EXCEPT ![w] = "forward"]
    /\ UNCHANGED <<status, queue, gnc, inbox, subscribed, wpend, wplan, wi, rlog, wrote,
                   sent, abortSeen, faulted, stopFlag, stopSeen, hreq, events, started,
                   chan, abortReq, step, clients, conn, bcast, ui, feed, gsub, vessel>>

\* worker.py line 53
Announce(w) ==
    /\ wpc[w] = "announce"
    /\ UpdateSet(w, "IN_PROGRESS",
                 ExecMsg(wi[w], Len(Fp(w)), Fp(w)[wi[w]]), "forward")
    /\ UNCHANGED <<queue, gnc, inbox, subscribed, wplan, wi, rlog, sent, abortSeen,
                   faulted, stopFlag, stopSeen, hreq, events, started, chan, abortReq,
                   step, clients, conn, bcast, ui, feed, gsub, vessel>>

\* Faulty variant of Forward: the first command of the plan is forwarded at every step
ForwardFirst(w) ==
    /\ wpc[w] = "forward" /\ wpend[w] = NoStatus
    /\ gnc' = Published(gnc, Mid(w), Fp(w)[1])
    /\ sent' = [sent EXCEPT ![w] = Append(@, Fp(w)[1])]
    /\ wpc' = [wpc EXCEPT ![w] = "sleep"]
    /\ UNCHANGED <<status, queue, inbox, subscribed, wpend, wplan, wi, rlog, wrote,
                   abortSeen, faulted, stopFlag, stopSeen, hreq, events, started, chan,
                   abortReq, step, clients, conn, bcast, ui, feed, gsub, vessel>>

\* worker.py line 56
Forward(w) ==
    /\ wpc[w] = "forward" /\ wpend[w] = NoStatus
    /\ gnc' = Published(gnc, Mid(w), Fp(w)[wi[w]])
    /\ sent' = [sent EXCEPT ![w] = Append(@, Fp(w)[wi[w]])]
    /\ wpc' = [wpc EXCEPT ![w] = "sleep"]
    /\ UNCHANGED <<status, queue, inbox, subscribed, wpend, wplan, wi, rlog, wrote,
                   abortSeen, faulted, stopFlag, stopSeen, hreq, events, started, chan,
                   abortReq, step, clients, conn, bcast, ui, feed, gsub, vessel>>

\* worker.py lines 59-60
Sleep(w) ==
    /\ wpc[w] = "sleep"
    /\ wi' = [wi EXCEPT ![w] = @ + 1]
    /\ wpc' = [wpc EXCEPT ![w] = "check"]
    /\ UNCHANGED <<status, queue, gnc, inbox, subscribed, wpend, wplan, rlog, wrote,
                   sent, abortSeen, faulted, stopFlag, stopSeen, hreq, events, started,
                   chan, abortReq, step, clients, conn, bcast, ui, feed, gsub, vessel>>

CompletedDetails == Msg("All mission commands executed successfully.")

\* Faulty variant of Complete: a plan without commands is reported as failed
CompleteNonEmpty(w) ==
    /\ wpc[w] = "complete"
    /\ IF Fp(w) = <<>>
       THEN UpdateSet(w, "FAILED", ErrMsg("empty flight plan"), "ret_completed")
       ELSE UpdateSet(w, "COMPLETED", CompletedDetails, "ret_completed")
    /\ UNCHANGED <<queue, gnc, inbox, subscribed, wplan, wi, rlog, sent, abortSeen,
                   faulted, stopFlag, stopSeen, hreq, events, started, chan, abortReq,
                   step, clients, conn, bcast, ui, feed, gsub, vessel>>

\* worker.py lines 62-63
Complete(w) ==
    /\ wpc[w] = "complete"
    /\ UpdateSet(w, "COMPLETED", CompletedDetails, "ret_completed")
    /\ UNCHANGED <<queue, gnc, inbox, subscribed, wplan, wi, rlog, sent, abortSeen,
                   faulted, stopFlag, stopSeen, hreq, events, started, chan, abortReq,
                   step, clients, conn, bcast, ui, feed, gsub, vessel>>

\* Faulty variant of Except: the exception is swallowed without a status
ExceptSilent(w) ==
    /\ wpc[w] = "except" /\ wpend[w] = NoStatus
    /\ wpc' = [wpc EXCEPT ![w] = "reraise"]
    /\ UNCHANGED <<status, queue, gnc, inbox, subscribed, wpend, wplan, wi, rlog, wrote,
                   sent, abortSeen, faulted, stopFlag, stopSeen, hreq, events, started,
                   chan, abortReq, step, clients, conn, bcast, ui, feed, gsub, vessel>>

\* worker.py lines 65-68
Except(w) ==
    /\ wpc[w] = "except"
    /\ UpdateSet(w, "FAILED", ErrMsg("ConnectionError"), "reraise")
    /\ UNCHANGED <<queue, gnc, inbox, subscribed, wplan, wi, rlog, sent, abortSeen,
                   faulted, stopFlag, stopSeen, hreq, events, started, chan, abortReq,
                   step, clients, conn, bcast, ui, feed, gsub, vessel>>

\* The task has ended: the consumer loop takes over and the run's record is dropped
EndRun(w) ==
    /\ wpc' = [wpc EXCEPT ![w] = "loop"]
    /\ wplan' = [wplan EXCEPT ![w] = NoPlan]
    /\ wi' = [wi EXCEPT ![w] = 0]
    /\ rlog' = [rlog EXCEPT ![w] = <<>>]
    /\ wrote' = [wrote EXCEPT ![w] = <<>>]
    /\ sent' = [sent EXCEPT ![w] = <<>>]
    /\ abortSeen' = [abortSeen EXCEPT ![w] = 0]
    /\ faulted' = [faulted EXCEPT ![w] = FALSE]
    /\ stopSeen' = [stopSeen EXCEPT ![w] = FALSE]

\* Faulty variant of Finally: the task ends without unsubscribing
FinallyLeak(w) ==
    /\ wpc[w] \in {"ret_aborted", "ret_completed", "reraise"}
    /\ wpend[w] = NoStatus
    /\ EndRun(w)
    /\ UNCHANGED <<status, queue, gnc, inbox, subscribed, wpend, stopFlag, hreq, events,
                   started, chan, abortReq, step, clients, conn, bcast, ui, feed, gsub,
                   vessel>>

\* worker.py lines 69-71 on the way out of the try (return or re-raise)
Finally(w) ==
    /\ wpc[w] \in {"ret_aborted", "ret_completed", "reraise"}
    /\ wpend[w] = NoStatus
    /\ subscribed' = [subscribed EXCEPT ![w] = FALSE]
    /\ inbox' = [inbox EXCEPT ![w] = <<>>]
    /\ EndRun(w)
    /\ UNCHANGED <<status, queue, gnc, wpend, stopFlag, hreq, events, started, chan,
                   abortReq, step, clients, conn, bcast, ui, feed, gsub, vessel>>

\* worker.py line 39 raised: the exception leaves the task before the try
Propagate(w) ==
    /\ wpc[w] = "raised"
    /\ EndRun(w)
    /\ UNCHANGED <<status, queue, gnc, inbox, subscribed, wpend, stopFlag, hreq, events,
                   started, chan, abortReq, step, clients, conn, bcast, ui, feed, gsub,
                   vessel>>

\* Where control goes when a Redis call raises: line 39 is outside the try, the
\* calls of lines 46-63 are inside it, those of line 67 are in the handler.
RaiseTarget(pc, pending) ==
    IF pc = "start" \/ pending = StartingStatus THEN "raised"
    ELSE IF pc = "except" \/ pending.status = "FAILED" THEN "reraise"
    ELSE "except"

\* redis_client.set raises (worker.py line 29)
FaultSet(w) ==
    /\ wpc[w] \in {"start", "abort", "announce", "complete", "except"}
    /\ wpend[w] = NoStatus
    /\ events < MaxEvents
    /\ events' = events + 1
    /\ faulted' = [faulted EXCEPT ![w] = TRUE]
    /\ wpc' = [wpc EXCEPT ![w] = RaiseTarget(wpc[w], NoStatus)]
    /\ UNCHANGED <<status, queue, gnc, inbox, subscribed, wpend, wplan, wi, rlog, wrote,
                   sent, abortSeen, stopFlag, stopSeen, hreq, started, chan, abortReq,
                   step, clients, conn, bcast, ui, feed, gsub, vessel>>

\* redis_client.publish raises (worker.py line 30)
FaultPublish(w) ==
    /\ wpend[w] # NoStatus
    /\ events < MaxEvents
    /\ events' = events + 1
    /\ faulted' = [faulted EXCEPT ![w] = TRUE]
    /\ wpend' = [wpend EXCEPT ![w] = NoStatus]
    /\ wpc' = [wpc EXCEPT ![w] = RaiseTarget(wpc[w], wpend[w])]
    /\ UNCHANGED <<status, queue, gnc, inbox, subscribed, wplan, wi, rlog, wrote, sent,
                   abortSeen, stopFlag, stopSeen, hreq, started, chan, abortReq, step,
                   clients, conn, bcast, ui, feed, gsub, vessel>>

\* redis_client.publish raises (worker.py line 56)
FaultForward(w) ==
    /\ wpc[w] = "forward" /\ wpend[w] = NoStatus
    /\ events < MaxEvents
    /\ events' = events + 1
    /\ faulted' = [faulted EXCEPT ![w] = TRUE]
    /\ wpc' = [wpc EXCEPT ![w] = "except"]
    /\ UNCHANGED <<status, queue, gnc, inbox, subscribed, wpend, wplan, wi, rlog, wrote,
                   sent, abortSeen, stopFlag, stopSeen, hreq, started, chan, abortReq,
                   step, clients, conn, bcast, ui, feed, gsub, vessel>>

\* redis_client.pubsub() / subscribe raises (worker.py lines 42-43, before the try)
FaultSubscribe(w) ==
    /\ wpc[w] = "subscribe" /\ wpend[w] = NoStatus
    /\ events < MaxEvents
    /\ events' = events + 1
    /\ faulted' = [faulted EXCEPT ![w] = TRUE]
    /\ wpc' = [wpc EXCEPT ![w] = "raised"]
    /\ UNCHANGED <<status, queue, gnc, inbox, subscribed, wpend, wplan, wi, rlog, wrote,
                   sent, abortSeen, stopFlag, stopSeen, hreq, started, chan, abortReq,
                   step, clients, conn, bcast, ui, feed, gsub, vessel>>

\* ------------------------------------------------------------ specification
\* A worker with one pool process, with abort requests, Redis errors and stop()
Next ==
    \/ \E h \in Handlers, m \in MissionIds, fp \in FlightPlans : SubmitBegin(h, m, fp)
    \/ \E h \in Handlers : SubmitDelay(h)
    \/ \E h \in Handlers : SubmitSet(h)
    \/ \E h \in Handlers : SubmitPublish(h)
    \/ \E h \in Handlers, m \in MissionIds : AbortBegin(h, m)
    \/ \E h \in Handlers : AbortSignal(h)
    \/ \E h \in Handlers : AbortSet(h)
    \/ \E h \in Handlers : AbortPublish(h)
    \/ \E w \in Solo : ConsumerLoop(w)
    \/ \E w \in Solo : ConsumerPop(w)
    \/ \E w \in Solo : ConsumerTimeout(w)
    \/ Stop
    \/ \E w \in Solo : Start(w)
    \/ \E w \in Solo : UpdatePublish(w)
    \/ \E w \in Solo : Subscribe(w)
    \/ \E w \in Solo : Check(w)
    \/ \E w \in Solo : Abort(w)
    \/ \E w \in Solo : Announce(w)
    \/ \E w \in Solo : Forward(w)
    \/ \E w \in Solo : Sleep(w)
    \/ \E w \in Solo : Complete(w)
    \/ \E w \in Solo : Except(w)
    \/ \E w \in Solo : Finally(w)
    \/ \E w \in Solo : Propagate(w)
    \/ \E w \in Solo : FaultSet(w)
    \/ \E w \in Solo : FaultPublish(w)
    \/ \E w \in Solo : FaultForward(w)
    \/ \E w \in Solo : FaultSubscribe(w)

Spec == Init /\ [][Next]_vars

\* A worker with two pool processes (celery's default on a two-core host),
\* undisturbed: no abort request, no Redis error, no stop()
NextPool ==
    \/ \E h \in Handlers, m \in MissionIds, fp \in PoolPlans : SubmitBegin(h, m, fp)
    \/ \E h \in Handlers : SubmitDelay(h)
    \/ \E h \in Handlers : SubmitSet(h)
    \/ \E h \in Handlers : SubmitPublish(h)
    \/ \E w \in Workers : ConsumerLoop(w)
    \/ \E w \in Workers : ConsumerPop(w)
    \/ \E w \in Workers : ConsumerTimeout(w)
    \/ \E w \in Workers : Start(w)
    \/ \E w \in Workers : UpdatePublish(w)
    \/ \E w \in Workers : Subscribe(w)
    \/ \E w \in Workers : Check(w)
    \/ \E w \in Workers : Announce(w)
    \/ \E w \in Workers : Forward(w)
    \/ \E w \in Workers : Sleep(w)
    \/ \E w \in Workers : Complete(w)
    \/ \E w \in Workers : Finally(w)

SpecPool == Init /\ [][NextPool]_vars

\* A worker with one pool process whose pops can fail on a broker outage; no
\* abort request, no Redis error inside a run, no stop()
NextOutage ==
    \/ \E h \in Handlers, m \in MissionIds, fp \in FlightPlans : SubmitBegin(h, m, fp)
    \/ \E h \in Handlers : SubmitDelay(h)
    \/ \E h \in Handlers : SubmitSet(h)
    \/ \E h \in Handlers : SubmitPublish(h)
    \/ \E w \in Solo : ConsumerLoop(w)
    \/ \E w \in Solo : ConsumerPop(w)
    \/ \E w \in Solo : ConsumerPopFail(w)
    \/ \E w \in Solo : ConsumerTimeout(w)
    \/ \E w \in Solo : Start(w)
    \/ \E w \in Solo : UpdatePublish(w)
    \/ \E w \in Solo : Subscribe(w)
    \/ \E w \in Solo : Check(w)
    \/ \E w \in Solo : Announce(w)
    \/ \E w \in Solo : Forward(w)
    \/ \E w \in Solo : Sleep(w)
    \/ \E w \in Solo : Complete(w)
    \/ \E w \in Solo : Finally(w)

SpecOutage == Init /\ [][NextOutage]_vars

\* Two request threads serving submissions concurrently while no worker is
\* running: the plans enqueued stay queued
NextApi ==
    \/ \E h \in ApiThreads, m \in MissionIds, fp \in PoolPlans : SubmitBegin(h, m, fp)
    \/ \E h \in ApiThreads : SubmitDelay(h)
    \/ \E h \in ApiThreads : SubmitSet(h)
    \/ \E h \in ApiThreads : SubmitPublish(h)
    \/ \E h \in ApiThreads, m \in MissionIds : SubmitInvalid(h, m)
    \/ \E h \in ApiThreads : SubmitReject(h)

SpecApi == Init /\ [][NextApi]_vars

\* --------------------------------------------------- the loop body, with time
\* worker.py line 46: the loop takes the next command of the flight plan
StepBegin(c, s) ==
    /\ step.pc = "idle"
    /\ step' = [NoStep EXCEPT !.pc = "publish", !.cmd = c, !.stream = s]
    /\ UNCHANGED <<status, queue, gnc, inbox, subscribed, wpc, wpend, runVars, stopFlag,
                   stopSeen, hreq, events, started, chan, abortReq, clients, conn,
                   bcast, ui, feed, gsub, vessel>>

\* worker.py line 56: every command, whatever its name, is published on
\* gnc_commands
StepPublish ==
    /\ step.pc = "publish"
    /\ step' = [step EXCEPT !.pc = "sleep", !.published = TRUE]
    /\ UNCHANGED <<status, queue, gnc, inbox, subscribed, wpc, wpend, runVars, stopFlag,
                   stopSeen, hreq, events, started, chan, abortReq, clients, conn,
                   bcast, ui, feed, gsub, vessel>>

\* worker.py line 59, in milliseconds
Delay(cmd) == IF cmd.has_delay THEN cmd.delay_ms ELSE 1000

\* worker.py line 60: time.sleep returns after the delay or later
StepSleep(over) ==
    /\ step.pc = "sleep"
    /\ step' = [step EXCEPT !.pc = "done", !.elapsed = Delay(step.cmd) + over]
    /\ UNCHANGED <<status, queue, gnc, inbox, subscribed, wpc, wpend, runVars, stopFlag,
                   stopSeen, hreq, events, started, chan, abortReq, clients, conn,
                   bcast, ui, feed, gsub, vessel>>

\* worker.py line 46: the loop body is over
StepEnd ==
    /\ step.pc = "done"
    /\ step' = NoStep
    /\ UNCHANGED <<status, queue, gnc, inbox, subscribed, wpc, wpend, runVars, stopFlag,
                   stopSeen, hreq, events, started, chan, abortReq, clients, conn,
                   bcast, ui, feed, gsub, vessel>>

NextStep ==
    \/ \E c \in Commands, s \in Streams : StepBegin(c, s)
    \/ StepPublish
    \/ \E over \in {0, MaxOverrun} : StepSleep(over)
    \/ StepEnd

SpecStep == Init /\ [][NextStep]_vars

\* ------------------------------------------------- gnc-flight-control server
\* The variables of the mission sequencer, which the websocket server of
\* gnc-flight-control does not touch
sequencerVars ==
    <<status, queue, gnc, inbox, subscribed, wpc, wpend, runVars, stopFlag,
      stopSeen, hreq, events, started, chan, abortReq, step>>

\* main.py line 73
RegisterClient(c) == clients \cup {c}

\* Faulty variant of UnregisterClient: the whole set is dropped
UnregisterEvery(c) == {}

\* main.py line 78 (set.remove raises KeyError when the element is absent)
UnregisterClient(c) == clients \ {c}

\* main.py lines 108-114: the handler registers its client and awaits
\* wait_closed()
WebsocketHandlerOpen(c) ==
    /\ conn[c].pc = "new"
    /\ clients' = RegisterClient(c)
    /\ conn' = [conn EXCEPT ![c].pc = "open"]
    /\ UNCHANGED <<sequencerVars, bcast, ui, feed, gsub, vessel>>

\* Faulty variant of WebsocketHandlerClose: the client is unregistered only
\* when wait_closed() returns
WebsocketHandlerCloseLeak(c, o) ==
    /\ conn[c].pc = "open"
    /\ clients' = IF o = "returned" THEN UnregisterClient(c) ELSE clients
    /\ conn' = [conn EXCEPT ![c] = [pc |-> "closed", outcome |-> o, raised |-> FALSE]]
    /\ UNCHANGED <<sequencerVars, bcast, ui, feed, gsub, vessel>>

\* main.py lines 114-126: wait_closed() returns or raises, every except clause
\* only logs, and the finally clause unregisters the client; the coroutine
\* raises only if the removal does
WebsocketHandlerClose(c, o) ==
    /\ conn[c].pc = "open"
    /\ clients' = UnregisterClient(c)
    /\ conn' = [conn EXCEPT ![c] = [pc |-> "closed", outcome |-> o,
                                    raised |-> c \notin clients]]
    /\ UNCHANGED <<sequencerVars, bcast, ui, feed, gsub, vessel>>

\* Faulty variant of BroadcastBegin: only one of the clients gets a send task
BroadcastBeginOne(b) ==
    /\ bcast[b].pc = "idle" /\ bcast[b].n < MaxBroadcasts
    /\ bcast' = [bcast EXCEPT ![b] =
                   IF clients = {}
                   THEN [IdleBroadcast EXCEPT !.pc = "done", !.n = bcast[b].n]
                   ELSE [IdleBroadcast EXCEPT !.pc = "gather", !.n = bcast[b].n,
                                              !.clients_list = {CHOOSE c \in clients : TRUE}]]
    /\ UNCHANGED <<sequencerVars, clients, conn, ui, feed, gsub, vessel>>

\* main.py lines 86-96 and 105-106: with no client the call returns at once;
\* otherwise one send task is created for every client of the set as it is
\* now, and the call awaits them all
BroadcastBegin(b) ==
    /\ bcast[b].pc = "idle" /\ bcast[b].n < MaxBroadcasts
    /\ bcast' = [bcast EXCEPT ![b] =
                   IF clients = {}
                   THEN [IdleBroadcast EXCEPT !.pc = "done", !.n = bcast[b].n]
                   ELSE [IdleBroadcast EXCEPT !.pc = "gather", !.n = bcast[b].n,
                                              !.clients_list = clients]]
    /\ UNCHANGED <<sequencerVars, clients, conn, ui, feed, gsub, vessel>>

\* main.py line 94: the task of one client runs client.send(message), which
\* succeeds only on an open connection and otherwise raises
ClientSend(b, c, ok) ==
    /\ bcast[b].pc = "gather"
    /\ c \in bcast[b].clients_list
    /\ bcast[b].results[c] = "none"
    /\ ok => conn[c].pc = "open"
    /\ bcast' = [bcast EXCEPT ![b].attempts[c] = @ + 1,
                              ![b].results[c] = IF ok THEN "sent" ELSE "exception"]
    /\ UNCHANGED <<sequencerVars, clients, conn, ui, feed, gsub, vessel>>

\* Faulty variant of BroadcastEnd: the clients whose send failed are removed
BroadcastEndPrune(b) ==
    /\ bcast[b].pc = "gather"
    /\ \A c \in bcast[b].clients_list : bcast[b].results[c] # "none"
    /\ bcast' = [bcast EXCEPT ![b].pc = "done"]
    /\ clients' = clients \ {c \in bcast[b].clients_list : bcast[b].results[c] = "exception"}
    /\ UNCHANGED <<sequencerVars, conn, ui, feed, gsub, vessel>>

\* main.py lines 96-104: gather(return_exceptions=True) returns once every
\* task is over, with the exceptions as results, which are only logged
BroadcastEnd(b) ==
    /\ bcast[b].pc = "gather"
    /\ \A c \in bcast[b].clients_list : bcast[b].results[c] # "none"
    /\ bcast' = [bcast EXCEPT ![b].pc = "done"]
    /\ UNCHANGED <<sequencerVars, clients, conn, ui, feed, gsub, vessel>>

\* telemetry_loop, main.py lines 177-184: the caller goes on to its next
\* broadcast
BroadcastReturn(b) ==
    /\ bcast[b].pc = "done"
    /\ bcast' = [bcast EXCEPT ![b] = [IdleBroadcast EXCEPT !.n = bcast[b].n + 1]]
    /\ UNCHANGED <<sequencerVars, clients, conn, ui, feed, gsub, vessel>>

NextGnc ==
    \/ \E c \in Sockets : WebsocketHandlerOpen(c)
    \/ \E c \in Sockets, o \in Outcomes : WebsocketHandlerClose(c, o)
    \/ \E b \in Broadcasters : BroadcastBegin(b)
    \/ \E b \in Broadcasters, c \in Sockets, ok \in BOOLEAN : ClientSend(b, c, ok)
    \/ \E b \in Broadcasters : BroadcastEnd(b)
    \/ \E b \in Broadcasters : BroadcastReturn(b)

SpecGnc == Init /\ [][NextGnc]_vars

\* ------------------------------------------------ mission-control-ui server
\* server.py line 45: raise_for_status raises HTTPError for a 4xx or 5xx
\* response; requests.post itself raises when there is no response
RaisesRequestException(r) == r.code = 0 \/ (r.code >= 400 /\ r.code < 600)

\* Faulty variant of ProxyReply: the sequencer's error response is passed on
ProxyReplyPassThrough(r) ==
    IF r.code = 0
    THEN [code |-> 502, body |-> "Failed to connect to Mission Sequencer", mission_id |-> ""]
    ELSE r

\* server.py lines 43-49
ProxyReply(r) ==
    IF RaisesRequestException(r)
    THEN [code |-> 502, body |-> "Failed to connect to Mission Sequencer", mission_id |-> ""]
    ELSE r

\* server.py line 44: the payload is posted to the sequencer
UiSubmit(u, r) ==
    /\ ui[u].pc = "idle"
    /\ ui' = [ui EXCEPT ![u] = [pc |-> "posted", resp |-> r, reply |-> NoResponse]]
    /\ UNCHANGED <<sequencerVars, clients, conn, bcast, feed, gsub, vessel>>

\* server.py lines 45-49: the answer of the proxy
UiRespond(u) ==
    /\ ui[u].pc = "posted"
    /\ ui' = [ui EXCEPT ![u].pc = "replied", ![u].reply = ProxyReply(ui[u].resp)]
    /\ UNCHANGED <<sequencerVars, clients, conn, bcast, feed, gsub, vessel>>

\* The request thread serves its next request
UiDone(u) ==
    /\ ui[u].pc = "replied"
    /\ ui' = [ui EXCEPT ![u] = IdleProxy]
    /\ UNCHANGED <<sequencerVars, clients, conn, bcast, feed, gsub, vessel>>

NextUi ==
    \/ \E u \in UiThreads, r \in SequencerResponses : UiSubmit(u, r)
    \/ \E u \in UiThreads : UiRespond(u)
    \/ \E u \in UiThreads : UiDone(u)

SpecUi == Init /\ [][NextUi]_vars

\* ------------------------------------------- gnc-flight-control command path
\* The variables the command path does not touch
otherVars == <<sequencerVars, clients, conn, bcast, ui>>

\* Redis pub/sub: a published message reaches the subscriber only if it is
\* subscribed at that moment
Deliver(msg) ==
    IF gsub.pc = "poll"
    THEN [gsub EXCEPT !.pending = Append(@, msg), !.delivered = Append(@, msg)]
    ELSE gsub

\* worker.py lines 53-56: the run publishes the next command of its plan
FeedPublish(c) ==
    /\ feed.status = "IN_PROGRESS"
    /\ Len(feed.sent) < MaxPlanLen
    /\ feed' = [feed EXCEPT !.sent = Append(@, c)]
    /\ gsub' = Deliver(JsonDumps(c))
    /\ UNCHANGED <<otherVars, vessel>>

\* worker.py lines 62-63: the plan is exhausted
FeedComplete ==
    /\ feed.status = "IN_PROGRESS"
    /\ feed' = [feed EXCEPT !.status = "COMPLETED"]
    /\ UNCHANGED <<otherVars, gsub, vessel>>

\* Another client of the Redis server publishes something that is not JSON
ForeignPublish ==
    /\ feed.foreign < MaxForeign
    /\ feed' = [feed EXCEPT !.foreign = @ + 1]
    /\ gsub' = Deliver(NotJson)
    /\ UNCHANGED <<otherVars, vessel>>

\* gnc main.py lines 236-250 with 46-68 and 129-134: kRPC is connected or not
\* (and then stays so), and the subscriber task subscribes to gnc_commands
GncBoot(k) ==
    /\ gsub.pc = "boot"
    /\ gsub' = [gsub EXCEPT !.pc = "poll"]
    /\ vessel' = [vessel EXCEPT !.connected = k]
    /\ UNCHANGED <<otherVars, feed>>

\* gnc main.py line 209 with 214, 218, 220: params.get("value", default)
ParamValue(cmd, default) == IF cmd.shape = "parameters" THEN cmd.value ELSE default

\* gnc main.py lines 202-233: the vessel after the command; float() and
\* bool() of the value, 0.0 and False being the defaults
execute_command(cmd) ==
    IF ~vessel.connected THEN vessel
    ELSE IF cmd.command = "SET_THROTTLE"
    THEN [vessel EXCEPT !.throttle = ParamValue(cmd, 0), !.last = cmd,
                        !.applied = Append(@, cmd)]
    ELSE IF cmd.command = "SET_SAS"
    THEN [vessel EXCEPT !.sas = (ParamValue(cmd, 0) # 0), !.last = cmd,
                        !.applied = Append(@, cmd)]
    ELSE IF cmd.command = "SET_RCS"
    THEN [vessel EXCEPT !.rcs = (ParamValue(cmd, 0) # 0), !.last = cmd,
                        !.applied = Append(@, cmd)]
    ELSE vessel

\* Faulty variant of SubscriberStep: a message that cannot be decoded ends
\* the loop
SubscriberStepFragile ==
    /\ gsub.pc = "poll"
    /\ gsub.pending # <<>>
    /\ LET msg == Head(gsub.pending) IN
          /\ gsub' = [gsub EXCEPT !.pending = Tail(@), !.handled = Append(@, msg),
                                  !.pc = IF msg.json THEN "poll" ELSE "ended"]
          /\ vessel' = IF msg.json THEN execute_command(msg.data) ELSE vessel
    /\ UNCHANGED <<otherVars, feed>>

\* gnc main.py lines 136-147: one iteration of redis_subscriber that got a
\* message: it is decoded and executed; an exception is logged and the loop
\* goes on
SubscriberStep ==
    /\ gsub.pc = "poll"
    /\ gsub.pending # <<>>
    /\ LET msg == Head(gsub.pending) IN
          /\ gsub' = [gsub EXCEPT !.pending = Tail(@), !.handled = Append(@, msg)]
          /\ vessel' = IF msg.json THEN execute_command(msg.data) ELSE vessel
    /\ UNCHANGED <<otherVars, feed>>

\* gnc main.py lines 143-145: the task is cancelled
SubscriberCancel ==
    /\ gsub.pc = "poll"
    /\ gsub' = [gsub EXCEPT !.pc = "cancelled"]
    /\ UNCHANGED <<otherVars, feed, vessel>>

NextCmd ==
    \/ \E c \in GncCommands : FeedPublish(c)
    \/ FeedComplete
    \/ ForeignPublish
    \/ \E k \in BOOLEAN : GncBoot(k)
    \/ SubscriberStep
    \/ SubscriberCancel

SpecCmd == Init /\ [][NextCmd]_vars

\* ----------------------------------------------------------------- fairness
\* Each pool process and each request thread keeps running: a step that stays
\* possible is eventually taken. Redis errors, abort requests and stop() are
\* not forced.
WorkerStep(w) ==
    \/ ConsumerLoop(w) \/ ConsumerPop(w) \/ ConsumerTimeout(w)
    \/ Start(w) \/ UpdatePublish(w) \/ Subscribe(w) \/ Check(w) \/ Abort(w)
    \/ Announce(w) \/ Forward(w) \/ Sleep(w) \/ Complete(w) \/ Except(w)
    \/ Finally(w) \/ Propagate(w)

HandlerStep(h) ==
    \/ SubmitDelay(h) \/ SubmitSet(h) \/ SubmitPublish(h)
    \/ AbortSignal(h) \/ AbortSet(h) \/ AbortPublish(h)

SpecFair ==
    /\ Spec
    /\ \A w \in Solo : WF_vars(WorkerStep(w))
    /\ \A h \in Handlers : WF_vars(HandlerStep(h))

SpecPoolFair ==
    /\ SpecPool
    /\ \A w \in Workers : WF_vars(WorkerStep(w))
    /\ \A h \in Handlers : WF_vars(HandlerStep(h))

SpecOutageFair ==
    /\ SpecOutage
    /\ \A w \in Solo : WF_vars(WorkerStep(w))
    /\ \A h \in Handlers : WF_vars(HandlerStep(h))

\* The GNC service starts and its subscriber task keeps polling; the
\* publishers and the cancellation are not forced
SpecCmdFair ==
    /\ SpecCmd
    /\ WF_vars(\E k \in BOOLEAN : GncBoot(k))
    /\ WF_vars(SubscriberStep)

\* ------------------------------------------------------------------- claims
Last(q) == q[Len(q)]

\* The body of execute_mission has finished and its last status is published
RunOver(w) ==
    /\ wpc[w] \in {"ret_aborted", "ret_completed", "reraise", "raised"}
    /\ wpend[w] = NoStatus

\* The run is between its IN_PROGRESS status and its terminal status
InFlight(w) == wrote[w] # <<>> /\ Last(wrote[w]) \notin Terminal

Undisturbed(w) == abortSeen[w] = 0 /\ ~faulted[w]

C2_StatusStateMachine ==
    \A w \in Workers :
        \A j \in 1..Len(rlog[w]) :
            IF j = 1 THEN rlog[w][j] = StartingStatus
            ELSE \/ /\ rlog[w][j].status \in Terminal
                    /\ j = Len(rlog[w])
                 \/ /\ rlog[w][j].status = "EXECUTING_COMMAND"
                    /\ rlog[w][j].details.kind = "sequence_index"
                    /\ rlog[w][j].details.num = j - 2

\* C3: a run whose plan contains an unrecognized command type ends FAILED with
\* an error naming "Invalid command", having forwarded the commands up to and
\* including the first unrecognized one and none after it.
FirstInvalid(fp) ==
    CHOOSE k \in 1..Len(fp) :
        fp[k] = "INVALID_COMMAND" /\ \A j \in 1..(k - 1) : fp[j] # "INVALID_COMMAND"

HasInvalid(fp) == \E k \in 1..Len(fp) : fp[k] = "INVALID_COMMAND"

C3_InvalidCommandFails ==
    \A w \in Workers :
        (RunOver(w) /\ Undisturbed(w) /\ HasInvalid(Fp(w))) =>
            /\ Last(wrote[w]) = "FAILED"
            /\ Last(rlog[w]).details.text = "Invalid command"
            /\ sent[w] = SubSeq(Fp(w), 1, FirstInvalid(Fp(w)))

\* C4: once a run has seen an abort message for its mission at the boundary of
\* step k it forwards no further command (those forwarded are the k-1 earlier
\* ones) and never announces or dispatches a command again; when no Redis call
\* fails it stores and publishes ABORTED as its last status, with details whose
\* field reason is "Mission aborted by operator", and returns.
C4_AbortStopsTheRun ==
    \A w \in Workers :
        abortSeen[w] > 0 =>
            /\ Len(sent[w]) = abortSeen[w] - 1
            /\ wpc[w] \in {"abort", "ret_aborted", "except", "reraise"}
            /\ ~faulted[w] => wpc[w] \in {"abort", "ret_aborted"}
            /\ (~faulted[w] /\ RunOver(w)) =>
                   /\ Last(wrote[w]) = "ABORTED"
                   /\ Last(rlog[w]).status = "ABORTED"
                   /\ Last(rlog[w]).details.kind = "reason"
                   /\ Last(rlog[w]).details.text = "Mission aborted by operator"

\* C5: once a run has stored a terminal status it stores no further status.
C5_NoWriteAfterTerminal ==
    \A w \in Workers :
        \A j \in 1..(Len(wrote[w]) - 1) : wrote[w][j] \notin Terminal

\* C6: a stored terminal status is never changed by any later step.
C6_TerminalIsFinal ==
    [][\A m \in MissionIds :
          status[m].status \in Terminal => status'[m] = status[m]]_vars

\* C7: at most one run is between its IN_PROGRESS status and its terminal
\* status, and on gnc_commands the commands of a mission are never followed by
\* another mission's commands and then by more of its own.
C7_OneMissionAtATime ==
    /\ Cardinality({w \in Workers : InFlight(w)}) <= 1
    /\ ~gnc.mixed

C9_StopAbortsWait ==
    \A w \in Workers :
        stopSeen[w] =>
            /\ \A j \in 1..Len(wrote[w]) : wrote[w][j] # "COMPLETED"
            /\ RunOver(w) =>
                   /\ Last(wrote[w]) = "ABORTED"
                   /\ Last(rlog[w]).details.text = "Service shutdown"

\* C10: after stop() every consumer loop eventually exits; a loop that has
\* exited never starts a mission again; and while stop() has not been called a
\* pop on an empty queue only takes the loop to its next iteration.
C10_StopEndsTheLoop ==
    /\ stopFlag ~> (\A w \in Solo : wpc[w] = "exited")
    /\ [][\A w \in Solo :
            /\ wpc[w] = "exited" => wpc'[w] = "exited"
            /\ (wpc[w] = "pop" /\ queue = <<>> /\ ~stopFlag /\ wpc'[w] # wpc[w])
                   => (wpc'[w] = "loop" /\ wplan'[w] = NoPlan)]_vars

C10_Witness ==
    /\ stopFlag
    /\ wpc["w1"] = "exited"
    /\ queue # <<>>

Quiet(m) ==
    /\ \A h \in Handlers : hreq[h].m # m
    /\ \A w \in Workers : Mid(w) = m => wpend[w] = NoStatus

\* C12: whenever no status update for a mission is under way, the stored
\* status of the mission is the payload most recently emitted for it: every
\* transition has updated the store and the channel together.
C12_StoreMatchesEmission ==
    \A m \in MissionIds : Quiet(m) => status[m] = chan[GlobalChannel][m]

\* C13: the payload last emitted for a mission on its dedicated channel
\* mission_status:<mission_id> is the payload last emitted for it on the
\* global status channel: every transition is emitted on both.
C13_BothChannels ==
    \A m \in MissionIds : chan[MissionChannel(m)][m] = chan[GlobalChannel][m]

\* An abort message addressed to the mission of the run is unread in its pubsub
AbortPending(w) ==
    \E k \in 1..Len(inbox[w]) : inbox[w][k] = AbortMessage(Mid(w))

\* C14: a run that passes a step boundary while an abort message for its
\* mission is pending goes to its abort branch at that boundary, whatever
\* other messages are pending before it; it does not go on to the command.
C14_AbortSeenAtBoundary ==
    [][\A w \in Workers :
          (/\ wpc[w] = "check" /\ wi[w] <= Len(Fp(w))
           /\ AbortPending(w)
           /\ wpc'[w] # "check")
              => wpc'[w] = "abort"]_vars

\* C15: a run reaches its abort branch, and stores ABORTED, only if
\* abort_mission has published an abort message carrying the id of the
\* mission the run executes: messages carrying another id never abort it.
C15_AbortOnlyOwnMission ==
    \A w \in Workers :
        (\/ wpc[w] = "abort"
         \/ abortSeen[w] > 0
         \/ \E j \in 1..Len(wrote[w]) : wrote[w][j] = "ABORTED")
            => Mid(w) \in abortReq

\* A run is at a step boundary and the next message of its pubsub is an abort
\* message for another mission
C15_Witness ==
    \E w \in Workers :
        /\ subscribed[w] /\ wpc[w] = "check" /\ wi[w] <= Len(Fp(w))
        /\ inbox[w] # <<>>
        /\ Head(inbox[w]).type = "message"
        /\ Head(inbox[w]).data # Mid(w)
        /\ Mid(w) \notin abortReq

Enqueued(m) ==
    Cardinality({k \in 1..Len(queue) : queue[k].mission_id = m}) + started[m]

\* C17: at most one plan is ever enqueued for a mission id, also when request
\* threads serve submissions with the same id concurrently.
C17_OnePlanPerMissionId ==
    \A m \in MissionIds : Enqueued(m) <= 1

\* C18: a plan is enqueued only after QUEUED has been stored for its mission,
\* and QUEUED is only ever stored for a mission that has no status yet: it
\* precedes the IN_PROGRESS of the run and never replaces a status of the run.
C18_QueuedBeforeEnqueue ==
    /\ [](\A k \in 1..Len(queue) : status[queue[k].mission_id] # NoStatus)
    /\ [][\A m \in MissionIds :
            (status'[m] = QueuedStatus /\ status[m] # QueuedStatus)
                => status[m] = NoStatus]_vars

\* C19: the stored status of every mission that has a record is one of QUEUED,
\* IN_PROGRESS, EXECUTING_COMMAND, COMPLETED, FAILED, ABORTED.
C19_StatusEnum ==
    \A m \in MissionIds :
        status[m] # NoStatus =>
            status[m].status \in {"QUEUED", "IN_PROGRESS", "EXECUTING_COMMAND",
                                  "COMPLETED", "FAILED", "ABORTED"}

\* C20: a status query returns "not found" only for a mission id that has no
\* record; once a record is stored for a mission id no step deletes it, and
\* after every step a query for that id returns the record stored last.
C20_RecordNeverDeleted ==
    /\ [](\A m \in MissionIds :
            GetMissionStatus(m).code = 404 <=> status[m] = NoStatus)
    /\ [][\A m \in MissionIds :
            status[m] # NoStatus =>
                /\ status'[m] # NoStatus
                /\ GetMissionStatus(m)' = [code |-> 200, body |-> status'[m]]]_vars

\* The service has stopped and the record of a terminated mission is served
C20_Witness ==
    \E m \in MissionIds :
        /\ status[m].status \in Terminal
        /\ \A w \in Solo : wpc[w] = "exited"
        /\ GetMissionStatus(m) = [code |-> 200, body |-> status[m]]

\* C21: a run of a plan without commands, with no abort seen and no failing
\* call, forwards no command at any point, and when it is over it has stored
\* and published exactly two statuses: IN_PROGRESS, then COMPLETED.
C21_EmptyPlanCompletes ==
    \A w \in Workers :
        (Mid(w) # "" /\ Fp(w) = <<>> /\ Undisturbed(w)) =>
            /\ sent[w] = <<>>
            /\ RunOver(w) =>
                   /\ wpc[w] = "ret_completed"
                   /\ wrote[w] = <<"IN_PROGRESS", "COMPLETED">>
                   /\ rlog[w] = <<StartingStatus,
                                  StatusPayload("COMPLETED", CompletedDetails)>>

C21_Witness ==
    \E w \in Workers :
        /\ Mid(w) # "" /\ Fp(w) = <<>> /\ Undisturbed(w)
        /\ RunOver(w)
        /\ Len(rlog[w]) = 2

\* C22: a request thread that receives a malformed or incomplete plan only
\* reports an error: it never enqueues the plan and never stores or publishes
\* a status, so the queue, the store and the channels are changed only by
\* threads serving plans that passed the validation.
C22_InvalidPlanRejected ==
    /\ [][\A h \in ApiThreads :
            hreq[h].pc = "rejected" => hreq'[h].pc \in {"rejected", "idle"}]_vars
    /\ [][(queue' # queue \/ status' # status \/ chan' # chan) =>
            \E h \in ApiThreads :
                /\ hreq[h].op = "submit"
                /\ hreq[h].pc \in {"delay", "set", "publish"}
                /\ hreq[h].fp \in PoolPlans
                /\ hreq'[h] # hreq[h]]_vars
    /\ [](\A k \in 1..Len(queue) : queue[k].flight_plan \in PoolPlans)

\* A malformed plan for a mission was rejected and the mission has no record
C22_Witness ==
    \E h \in ApiThreads :
        /\ hreq[h].pc = "rejected"
        /\ hreq[h].fp = MalformedPlan
        /\ status[hreq[h].m] = NoStatus
        /\ Enqueued(hreq[h].m) = 0
        /\ queue # <<>>

\* The one failing call of the run was the dispatch of a command: every
\* command announced before the FAILED status but the last was forwarded
DispatchRaised(w) ==
    /\ faulted[w] /\ events = 1
    /\ wpc[w] = "reraise"
    /\ Len(rlog[w]) = Len(sent[w]) + 3

C24_CooperativeAbort ==
    /\ [][\A w \in Workers :
            wpc[w] \in {"forward", "sleep"} =>
                /\ wrote'[w] = wrote[w]
                /\ rlog'[w] # rlog[w] => Last(rlog'[w]).status = "IN_PROGRESS"
                /\ wpc'[w] \in {"forward", "sleep", "check", "except"}]_vars
    /\ [](\A w \in Workers :
            (/\ wpc[w] = "ret_completed" /\ wpend[w] = NoStatus
             /\ Len(Fp(w)) >= 2 /\ AbortPending(w) /\ abortSeen[w] = 0
             /\ Quiet(Mid(w)))
                => status[Mid(w)].status = "COMPLETED")

\* The number of readings polled up to and including the first one that is
\* strictly less than the reading before it
FirstDecrease(s) ==
    CHOOSE k \in 2..Len(s) :
        /\ s[k] < s[k - 1]
        /\ \A j \in 2..(k - 1) : s[j] >= s[j - 1]

\* C25: when a WAIT_UNTIL_APOAPSIS step is over, the telemetry stream has been
\* polled exactly up to its first decreasing reading and has been released
\* exactly once.
C25_ApoapsisPolling ==
    (step.pc = "done" /\ step.cmd.command = "WAIT_UNTIL_APOAPSIS") =>
        /\ step.polls = FirstDecrease(step.stream)
        /\ step.released = 1

\* C26: when a WAIT(value) step is over, at least value seconds have elapsed
\* in it.
C26_WaitElapsed ==
    (step.pc = "done" /\ step.cmd.command = "WAIT") =>
        step.elapsed >= step.cmd.value * 1000

C28_HandlersIndependent ==
    /\ [][\A c \in Sockets :
            conn'[c] # conn[c] =>
                \A d \in Sockets \ {c} :
                    /\ conn'[d] = conn[d]
                    /\ d \in clients' <=> d \in clients]_vars
    /\ []((\A c \in Sockets : conn[c].pc = "closed") => clients = {})

C28_Witness ==
    \E c, d \in Sockets :
        /\ conn[c].pc = "closed" /\ conn[c].outcome = "ConnectionClosedError"
        /\ conn[d].pc = "closed" /\ conn[d].outcome = "returned"
        /\ clients = {}

\* C29: a broadcast attempts one send for each client that was in the set
\* when it began and none for any other, never more than one per client; it
\* ends without raising whether sends failed or not, and with no client
\* connected it ends without any attempt.
C29_BroadcastOncePerClient ==
    /\ [][\A b \in Broadcasters :
            (bcast[b].pc = "idle" /\ bcast'[b].pc # "idle") =>
                /\ bcast'[b].clients_list = clients
                /\ clients = {} <=> bcast'[b].pc = "done"]_vars
    /\ [](\A b \in Broadcasters :
            /\ \A c \in Sockets : bcast[b].attempts[c] <= 1
            /\ \A c \in Sockets \ bcast[b].clients_list : bcast[b].attempts[c] = 0
            /\ bcast[b].pc = "done" =>
                   /\ \A c \in bcast[b].clients_list : bcast[b].attempts[c] = 1
                   /\ ~bcast[b].raised)

C29_Witness ==
    \E b \in Broadcasters :
        /\ bcast[b].pc = "done"
        /\ \E c, d \in bcast[b].clients_list :
              bcast[b].results[c] = "exception" /\ bcast[b].results[d] = "sent"

\* C30: no step of a broadcast, whether its sends succeed or fail and
\* whether another broadcast is under way or not, changes the clients set.
C30_BroadcastKeepsClients ==
    [][bcast' # bcast => clients' = clients]_vars

C30_Witness ==
    \E a, b \in Broadcasters :
        /\ a # b
        /\ bcast[a].n = 1 /\ bcast[a].pc = "done"
        /\ \E c \in bcast[a].clients_list : bcast[a].results[c] = "exception"
        /\ bcast[b].pc = "gather"
        /\ clients = Sockets

\* C33: whenever IN_PROGRESS has been published for a mission, the stored
\* status of that mission eventually is a terminal one (COMPLETED, FAILED or
\* ABORTED).
C33_RunsTerminate ==
    \A m \in MissionIds :
        (chan[GlobalChannel][m] # NoStatus /\ chan[GlobalChannel][m].status = "IN_PROGRESS")
            ~> (status[m] # NoStatus /\ status[m].status \in Terminal)

\* C34: at every point of a run the commands forwarded so far are the first
\* commands of the plan, in the plan's order, each once, and for each of them
\* the status announcing its step was published before.
C34_ForwardedPrefix ==
    \A w \in Workers :
        /\ Len(sent[w]) <= Len(Fp(w))
        /\ sent[w] = SubSeq(Fp(w), 1, Len(sent[w]))
        /\ \A k \in 1..Len(sent[w]) :
              /\ Len(rlog[w]) >= k + 1
              /\ rlog[w][k + 1] =
                    StatusPayload("IN_PROGRESS", ExecMsg(k, Len(Fp(w)), Fp(w)[k]))

C34_Witness ==
    \E w \in Workers :
        /\ wpc[w] = "sleep"
        /\ Len(sent[w]) = 2 /\ sent[w][1] # sent[w][2]
        /\ Len(rlog[w]) = 3

\* A run of the mission has dispatched the last command of its plan
LastDispatched(m) == \E w \in Workers : Mid(w) = m /\ sent[w] = Fp(w)

\* C35: an abort request that abort_mission accepts for a mission which has no
\* terminal status, and whose last command has not been dispatched, leads to
\* the status ABORTED of that mission; the mission may still be queued, or
\* running in a worker that has not subscribed yet.
C35_AcceptedAbortAborts ==
    \A m \in MissionIds :
        (/\ \E h \in Handlers :
               hreq[h].op = "abort" /\ hreq[h].pc = "signal" /\ hreq[h].m = m
         /\ status[m].status \notin Terminal
         /\ ~LastDispatched(m))
            ~> (status[m] # NoStatus /\ status[m].status = "ABORTED")

\* C38: a step that changes the stored status of a mission is a status write
\* of a run of that mission, or of a submit or abort request for that
\* mission; it leaves the stored status of every other mission as it was.
C38_StatusWritesConfined ==
    [][\A m \in MissionIds :
          status'[m] # status[m] =>
              /\ \/ \E w \in Workers : Mid(w) = m /\ wrote'[w] # wrote[w]
                 \/ \E h \in ApiThreads :
                        /\ hreq[h].m = m /\ hreq[h].pc = "set"
                        /\ hreq'[h] # hreq[h]
              /\ \A n \in MissionIds \ {m} : status'[n] = status[n]]_vars

C38_Witness ==
    \E m, n \in MissionIds :
        /\ status[m] # NoStatus /\ status[m].status = "ABORT_REQUESTED"
        /\ status[n] # NoStatus /\ status[n].status = "IN_PROGRESS"
        /\ \E w \in Workers : Mid(w) = n /\ Len(wrote[w]) >= 2

\* C32: the proxy answers 502 whenever the sequencer answered with an error
\* status or did not answer, and answers with the sequencer's own status code
\* and body when the sequencer accepted the submission.
C32_ProxyAnswers ==
    \A u \in UiThreads :
        ui[u].pc = "replied" =>
            IF ui[u].resp.code = 202
            THEN ui[u].reply = ui[u].resp
            ELSE ui[u].reply.code = 502

C32_Witness ==
    \E u, v \in UiThreads :
        /\ ui[u].pc = "replied" /\ ui[u].resp.code = 409 /\ ui[u].reply.code = 502
        /\ ui[v].pc = "replied" /\ ui[v].resp.code = 202 /\ ui[v].reply.code = 202

\* C31: after GNC has executed a SET_THROTTLE, SET_SAS or SET_RCS command of
\* a plan, the control it names has the value the plan command carries.
C31_ControlsGetPlanValue ==
    /\ vessel.last.command = "SET_THROTTLE" => vessel.throttle = vessel.last.value
    /\ vessel.last.command = "SET_SAS" => vessel.sas = (vessel.last.value # 0)
    /\ vessel.last.command = "SET_RCS" => vessel.rcs = (vessel.last.value # 0)

\* The commands of a sequence that name a control of the vessel
IsControl(c) == c.command \in {"SET_THROTTLE", "SET_SAS", "SET_RCS"}

ControlCommands(q) == SelectSeq(q, IsControl)

\* C36: once the mission is COMPLETED, every control command of its plan has
\* been applied to the vessel by GNC, or is eventually, as long as the GNC
\* subscriber is not cancelled.
C36_CompletedMeansApplied ==
    (feed.status = "COMPLETED")
        ~> (gsub.pc = "cancelled" \/ vessel.applied = ControlCommands(feed.sent))

\* The commands decoded from a sequence of messages
IsJson(msg) == msg.json

Decoded(q) == [k \in 1..Len(SelectSeq(q, IsJson)) |-> SelectSeq(q, IsJson)[k].data]

====
